---- MODULE Spec2Model ----
(***************************************************************************)
(* A model of filterbank/filterbank2.py: the Filterbank object, its        *)
(* frequency axis (_setup_freqs), DC blanking (blank_dc), the writers      *)
(* (write_to_fil, write_to_hdf5 light and heavy) and the blob geometry.    *)
(*                                                                         *)
(* Frequencies are integers in units of 0.5 MHz (1420.0 MHz is 2840), and  *)
(* the float arithmetic of the source is modelled as exact rational        *)
(* arithmetic: (f - fch1) / foff is the pair numerator / denominator, and  *)
(* np.int truncates it towards zero.  The beam axis always has extent 1    *)
(* and is left out of the arrays: data[t][c] is data[t, 0, c].             *)
(***************************************************************************)
EXTENDS Integers, Sequences, FiniteSets, TLC

VARIABLES
    filename,    \* self.filename, as the set of data-product markers the name contains
    header,      \* self.header: [fch1, foff, nchans, nbits]
    container,   \* what the file wrapper reports: n_ints_in_file, n_channels_in_file, t_start, t_stop, c_start(), heavy
    data,        \* self.data as data[t][c]
    freqs,       \* self.freqs
    ret,         \* what the last _setup_freqs returned
    call,        \* the last operation, its arguments and the values it started from
    raised,      \* the exception the last operation ended with, or NoError
    pc, ii,      \* position of write_to_hdf5 and the blob index of its loop
    plan,        \* chunk_dim, blob_dim, n_blobs of the running conversion
    h5,          \* the destination HDF5 file
    fil,         \* the .fil file last written
    src,         \* the flat file the object was opened from
    HAS_BITSHUFFLE,  \* whether "import bitshuffle.h5" succeeded (lines 39-44)
    stdout       \* the lines printed so far

vars == <<filename, header, container, data, freqs, ret, call, raised, pc, ii, plan, h5, fil, src,
          HAS_BITSHUFFLE, stdout>>

\* Python's None for an optional argument is the empty tuple, and a value v is <<v>>.
None == <<>>
Some(v) == <<v>>
NoError == "none"

(***************************************************************************)
(* Bounds of the model.                                                    *)
(***************************************************************************)
MaxChans == 4      \* nchans of the small files is 1..MaxChans
MaxInts == 2       \* the small files hold 1..MaxInts integrations
MaxHalfBlobs == 5  \* the large files are 1..MaxHalfBlobs half blob widths wide
MaxTimeBlobs == 2  \* and up to MaxTimeBlobs blobs (and one integration) long
MaxTStart == 1     \* a selection of a large file starts at integration 0..MaxTStart
MaxDCChans == 20   \* blank_dc is applied to arrays of 1..MaxDCChans channels
MaxCoarse == 4     \* with n_coarse_chan in 0..MaxCoarse
MaxSeed == 3       \* the sample patterns of the small files are numbered 0..MaxSeed

(***************************************************************************)
(* Arithmetic helpers.                                                     *)
(***************************************************************************)
Abs(x) == IF x < 0 THEN -x ELSE x
Min(a, b) == IF a <= b THEN a ELSE b
Max(a, b) == IF a >= b THEN a ELSE b

\* np.int(n / d) for the exact quotient n / d: truncation towards zero.
NpInt(n, d) == IF (n < 0) = (d < 0) THEN Abs(n) \div Abs(d) ELSE -(Abs(n) \div Abs(d))

\* n1/d < n2/d for d # 0.
RatLess(n1, n2, d) == IF d > 0 THEN n1 < n2 ELSE n1 > n2

Reverse(s) == [k \in 1..Len(s) |-> s[Len(s) + 1 - k]]

\* np.arange(a, b)
Arange(a, b) == [k \in 1..Max(b - a, 0) |-> a + k - 1]

\* Python truthiness of an optional number: None and 0 are both false.
Truthy(x) == x # None /\ x[1] # 0

(***************************************************************************)
(* _setup_freqs                                                            *)
(***************************************************************************)
\* i_start and i_stop as numerators over the denominator f_delt.
IStartNum(h, f_start) == IF Truthy(f_start) THEN f_start[1] - h.fch1 ELSE 0
IStopNum(h, f_stop) == IF Truthy(f_stop) THEN f_stop[1] - h.fch1 ELSE h.nchans * h.foff

\* lines 175-178: the index values of the axis.
IVals(i_start, i_stop, f_delt) ==
    IF RatLess(i_start, i_stop, f_delt)
    THEN Arange(NpInt(i_start, f_delt), NpInt(i_stop, f_delt))
    ELSE Arange(NpInt(i_stop, f_delt), NpInt(i_start, f_delt))

\* lines 182-183: a descending axis is reversed.
Orient_NoFlip(f_delt, fr) == fr
Orient(f_delt, fr) == IF f_delt < 0 THEN Reverse(fr) ELSE fr

\* lines 171-172 and 185: the channel indices returned, as computed.
ChanIdx_Ordered(i_start, i_stop, f_delt) ==
    <<Min(NpInt(i_start, f_delt), NpInt(i_stop, f_delt)),
      Max(NpInt(i_start, f_delt), NpInt(i_stop, f_delt))>>
ChanIdx(i_start, i_stop, f_delt) == <<NpInt(i_start, f_delt), NpInt(i_stop, f_delt)>>

setup_freqs(h, f_start, f_stop) ==
    LET f0 == h.fch1
        f_delt == h.foff
        i_start == IStartNum(h, f_start)
        i_stop == IStopNum(h, f_stop)
        i_vals == IVals(i_start, i_stop, f_delt)
        idx == ChanIdx(i_start, i_stop, f_delt)
    IN  [freqs |-> Orient(f_delt, [k \in 1..Len(i_vals) |-> f_delt * i_vals[k] + f0]),
         i_start |-> i_start, i_stop |-> i_stop,
         chan_start_idx |-> idx[1], chan_stop_idx |-> idx[2]]

RetOf(r) == [i_start |-> r.i_start, i_stop |-> r.i_stop,
             chan_start_idx |-> r.chan_start_idx, chan_stop_idx |-> r.chan_stop_idx]

(***************************************************************************)
(* The values the model draws its inputs from.                             *)
(***************************************************************************)
NBitsValues == {8, 16, 32}
\* 2840 is 1420.0 MHz; 3 gives descending axes that contain the frequency 0.
Fch1Values == {3, 2840}
\* A channel is one unit (0.5 MHz) or two units wide, in either direction.
FoffValues == {-2, -1, 1, 2}
Headers == [fch1 : Fch1Values, foff : FoffValues, nchans : 1..MaxChans, nbits : NBitsValues]

\* The lowest and the highest channel frequency of the file.
AxisLo(h) == Min(h.fch1, h.fch1 + h.foff * (h.nchans - 1))
AxisHi(h) == Max(h.fch1, h.fch1 + h.foff * (h.nchans - 1))
FileFreqs(h) == {h.fch1 + h.foff * i : i \in 0..(h.nchans - 1)}
\* Requested frequencies: absent, 0, and every frequency from three units below
\* the axis to three units above it (more than one channel beyond either end).
FreqInputs(h) == {None, Some(0)} \cup {Some(f) : f \in (AxisLo(h) - 3)..(AxisHi(h) + 3)}

\* The data_array given to gen_from_header is kept as it is given, a (time, beam,
\* frequency) array; the data of a file is kept without its beam axis of extent 1.
ZeroData(n_t, n_c) == [t \in 1..n_t |-> <<[c \in 1..n_c |-> 0]>>]

NoContainer == [n_ints_in_file |-> 0, n_channels_in_file |-> 0, t_start |-> 0, t_stop |-> 0,
                c_start |-> 0, heavy |-> FALSE, ext |-> ""]
NoPlan == [chunk_dim |-> <<>>, blob_dim |-> <<>>, n_blobs |-> 0]
NoH5 == [exists |-> FALSE, CLASS |-> "", compression |-> "", mask_compression |-> "",
         chunks |-> <<>>, shape |-> <<>>,
         labels |-> <<>>, mask_shape |-> <<>>, mask_labels |-> <<>>, attrs |-> <<>>,
         data |-> <<>>, writes |-> {}]
NoFile == [exists |-> FALSE, header |-> <<>>, samples |-> <<>>]

(***************************************************************************)
(* gen_from_header and _setup_freqs as operations of the object.           *)
(***************************************************************************)
SetupFreqsCall(f_start, f_stop) ==
    LET r == setup_freqs(header, f_start, f_stop)
    IN  /\ freqs' = r.freqs
        /\ ret' = RetOf(r)
        /\ call' = [op |-> "_setup_freqs", f_start |-> f_start, f_stop |-> f_stop]
        /\ raised' = NoError
        /\ UNCHANGED <<filename, header, container, data, pc, ii, plan, h5, fil, src, HAS_BITSHUFFLE, stdout>>

\* Filterbank(header_dict = h, data_array = d): lines 137-138 and 150-156.
InitFromHeader(h, d) ==
    LET r == setup_freqs(h, None, None)
    IN  /\ filename = ""
        /\ header = h
        /\ data = d
        /\ container = NoContainer
        /\ freqs = r.freqs
        /\ ret = RetOf(r)
        /\ call = [op |-> "gen_from_header", f_start |-> None, f_stop |-> None]
        /\ raised = NoError
        /\ pc = "idle" /\ ii = 0 /\ plan = NoPlan /\ h5 = NoH5 /\ fil = NoFile /\ src = NoFile
        /\ stdout = {}

InitFreqs ==
    /\ HAS_BITSHUFFLE = TRUE
    /\ \E h \in Headers : h.nbits = 32 /\ InitFromHeader(h, ZeroData(1, h.nchans))

NextFreqs ==
    \E f_start \in FreqInputs(header), f_stop \in FreqInputs(header) : SetupFreqsCall(f_start, f_stop)

SpecFreqs == InitFreqs /\ [][NextFreqs]_vars

(***************************************************************************)
(* Claims about the frequency axis, checked under SpecFreqs.               *)
(***************************************************************************)
StrictlyAscending(s) == \A k \in 1..(Len(s) - 1) : s[k] < s[k + 1]
SeqRange(s) == {s[k] : k \in 1..Len(s)}

\* The last call gave both bounds, ordered.
Window == Truthy(call.f_start) /\ Truthy(call.f_stop) /\ call.f_start[1] < call.f_stop[1]
WindowInside == Window /\ AxisLo(header) <= call.f_start[1] /\ call.f_stop[1] <= AxisHi(header)
WindowOutside == Window /\ (call.f_stop[1] < AxisLo(header) \/ call.f_start[1] > AxisHi(header))
WindowPartial == Window /\ ~WindowInside /\ ~WindowOutside
\* fch1 = 1420.0, foff = -0.5, nchans = 4.
ExampleHeader == header.fch1 = 2840 /\ header.foff = -1 /\ header.nchans = 4
\* f_start = 1419.0, f_stop = 1420.0.
ExampleWindow == ExampleHeader /\ call.f_start = Some(2838) /\ call.f_stop = Some(2840)

\* C1: with foff < 0, nchans > 0 and no selection bounds, the axis _setup_freqs
\* builds has exactly nchans values, is strictly ascending, and starts at
\* min(fch1, fch1 + foff*(nchans-1)).
C1_DescendingAxisAscends ==
    (header.foff < 0 /\ header.nchans > 0 /\ call.f_start = None /\ call.f_stop = None)
        => /\ Len(freqs) = header.nchans
           /\ StrictlyAscending(freqs)
           /\ freqs[1] = Min(header.fch1, header.fch1 + header.foff * (header.nchans - 1))

\* The example of the specification: [1418.5, 1419.0, 1419.5, 1420.0].
C1_Witness ==
    /\ ExampleHeader /\ call.op = "_setup_freqs" /\ call.f_start = None /\ call.f_stop = None
    /\ freqs = <<2837, 2838, 2839, 2840>>

C9_EqualBoundsNeverEmpty ==
    (call.op = "_setup_freqs" /\ Truthy(call.f_start) /\ call.f_start = call.f_stop)
        => (raised = "EmptySelectionError" \/ Len(freqs) > 0)

\* C10: bounds that partly overlap the axis are clamped to [0, nchans], so every
\* frequency of the axis built is a channel of the file; bounds entirely outside
\* the axis fail with OutOfRangeError.
C10_ClampedOrOutOfRange ==
    /\ WindowPartial
          => /\ SeqRange(freqs) \subseteq FileFreqs(header)
             /\ 0 <= Min(ret.chan_start_idx, ret.chan_stop_idx)
             /\ Max(ret.chan_start_idx, ret.chan_stop_idx) <= header.nchans
    /\ WindowOutside => raised = "OutOfRangeError"

(***************************************************************************)
(* Blob geometry: __get_chunk_dimentions and __get_blob_dimentions.        *)
(***************************************************************************)
\* lines 130-132: the axes of the (time, beam, frequency) arrays.
freq_axis == 2
time_axis == 0
beam_axis == 1
\* line 81
MAX_BLOB_MB == 256

\* shape[axis] of a Python tuple.
Axis(shape, axis) == shape[axis + 1]

\* The markers a file name is searched for (lines 751, 755, 759).
Markers == {"gpuspec.0000.", "gpuspec.0001.", "gpuspec.0002."}
Filenames == SUBSET Markers

\* chunk_dim = True (line 766) is the 1-tuple <<TRUE>>; a shape has 3 extents.
ChunkAuto == <<TRUE>>
IsShape(dim) == Len(dim) = 3

get_chunk_dimentions(fname) ==
    IF "gpuspec.0000." \in fname THEN <<1, 1, 1048576>>
    ELSE IF "gpuspec.0001." \in fname THEN <<512, 1, 2048>>
    ELSE IF "gpuspec.0002." \in fname THEN <<10, 1, 65536>>
    ELSE ChunkAuto

CeilDiv(a, b) == (a + b - 1) \div b

get_blob_dimentions_RoundUp(chunk_dim, n_channels_in_file) ==
    LET freq_axis_size == Min(n_channels_in_file, Axis(chunk_dim, freq_axis) * MAX_BLOB_MB)
        time_axis_size == CeilDiv(Axis(chunk_dim, time_axis) * MAX_BLOB_MB * Axis(chunk_dim, freq_axis),
                                  freq_axis_size)
    IN  <<time_axis_size, 1, freq_axis_size>>

get_blob_dimentions_NoMin(chunk_dim, n_channels_in_file) ==
    LET freq_axis_size == Axis(chunk_dim, freq_axis) * MAX_BLOB_MB
        time_axis_size == (Axis(chunk_dim, time_axis) * MAX_BLOB_MB * Axis(chunk_dim, freq_axis))
                              \div freq_axis_size
    IN  <<time_axis_size, 1, freq_axis_size>>

\* lines 740-745, for a chunk_dim that is a shape; "/" of two ints truncates.
get_blob_dimentions(chunk_dim, n_channels_in_file) ==
    LET freq_axis_size == Min(n_channels_in_file, Axis(chunk_dim, freq_axis) * MAX_BLOB_MB)
        time_axis_size == (Axis(chunk_dim, time_axis) * MAX_BLOB_MB * Axis(chunk_dim, freq_axis))
                              \div freq_axis_size
    IN  <<time_axis_size, 1, freq_axis_size>>

\* self.selection_shape, as the file wrapper reports it.
selection_shape(cont) == <<cont.t_stop - cont.t_start, 1, cont.n_channels_in_file>>
\* self.file_shape
file_shape(cont) == <<cont.n_ints_in_file, 1, cont.n_channels_in_file>>

\* container.calc_n_blobs: ceiling division of the selection by the blob along
\* the streamed axis, frequency when the blob is narrower than the file.
calc_n_blobs(cont, blob_dim) ==
    IF Axis(blob_dim, freq_axis) < cont.n_channels_in_file
    THEN CeilDiv(Axis(selection_shape(cont), freq_axis), Axis(blob_dim, freq_axis))
    ELSE CeilDiv(Axis(selection_shape(cont), time_axis), Axis(blob_dim, time_axis))
\* The same count taken over both axes: the blobs of every block of
\* integrations, which is what lines 676 and 683 provide for when they divide
\* and wrap the running channel by n_channels_in_file.
calc_n_blobs_all(cont, blob_dim) ==
    CeilDiv(Axis(selection_shape(cont), freq_axis), Axis(blob_dim, freq_axis))
        * CeilDiv(Axis(selection_shape(cont), time_axis), Axis(blob_dim, time_axis))
\* The blob counts the file wrapper may report: the description leaves open
\* which of the two it is.
BlobCounts(cont, blob_dim) == {calc_n_blobs(cont, blob_dim), calc_n_blobs_all(cont, blob_dim)}

(***************************************************************************)
(* The file wrapper's blobs and h5py's slice assignment.                   *)
(***************************************************************************)
\* The time block blob n_blob lies in: blobs narrower than the file walk the
\* channels of one block of integrations before the next.
BlobTimeBlock(cont, blob_dim, n_blob) ==
    IF Axis(blob_dim, freq_axis) < cont.n_channels_in_file
    THEN (cont.c_start + n_blob * Axis(blob_dim, freq_axis)) \div cont.n_channels_in_file
    ELSE n_blob

\* container.read_blob: the shape of blob n_blob; the last blob in time holds
\* only the integrations the selection has left.
read_blob(cont, blob_dim, n_blob) ==
    LET left == Axis(selection_shape(cont), time_axis)
                    - BlobTimeBlock(cont, blob_dim, n_blob) * Axis(blob_dim, time_axis)
    IN  <<Max(0, Min(Axis(blob_dim, time_axis), left)), 1, Axis(blob_dim, freq_axis)>>

\* slice.indices: a negative index counts from the end, and both are clipped.
SliceIndex(x, n) == IF x < 0 THEN Max(x + n, 0) ELSE Min(x, n)
Sel(start, stop, n) ==
    LET a == SliceIndex(start, n)
        b == SliceIndex(stop, n)
    IN  [start |-> a, count |-> Max(b - a, 0), reversed |-> b < a]

\* h5py broadcasts a source extent of 1, and otherwise wants equal extents.
Fits(extent, count) == extent = 1 \/ extent = count

\* The blob written into the selected region: an empty selection returns at
\* once, and otherwise the blob's shape must broadcast to the selection's or
\* TypeError is raised.
H5Broadcast(n_blob, ts, cs, bob, time_fits) ==
    IF ts.count = 0 \/ cs.count = 0
    THEN [error |-> NoError, write |-> {}]
    ELSE IF Fits(Axis(bob, freq_axis), cs.count) /\ time_fits
    THEN [error |-> NoError,
          write |-> {[ii |-> n_blob, t0 |-> ts.start, t1 |-> ts.start + ts.count,
                      c0 |-> cs.start, c1 |-> cs.start + cs.count,
                      rows |-> Axis(bob, time_axis), cols |-> Axis(bob, freq_axis)]}]
    ELSE [error |-> "TypeError", write |-> {}]

\* What dset[...] = bob can do.  A slice whose stop lies before its start is
\* refused with ValueError by h5py 2 and is an empty selection for h5py 3.
H5SetItem(n_blob, ts, cs, bob, time_fits) ==
    {H5Broadcast(n_blob, ts, cs, bob, time_fits)}
        \cup (IF ts.reversed \/ cs.reversed THEN {[error |-> "ValueError", write |-> {}]} ELSE {})

(***************************************************************************)
(* write_to_hdf5                                                           *)
(***************************************************************************)
AtRest == pc \in {"idle", "done", "failed"}

\* lines 663-664 and 733-734
CopyAttrs_SkipNbits(hdr) == [key \in DOMAIN hdr \ {"nbits"} |-> hdr[key]]
CopyAttrs_Later(hdr) == [key \in {} |-> hdr[key]]
CopyAttrs(hdr) == [key \in DOMAIN hdr |-> hdr[key]]

\* lines 654-660 and 724-730
DimLabels == <<"frequency", "feed_id", "time">>

\* lines 608-609 and 620-626: the heavy path computes its geometry.
HeavyPlan ==
    /\ AtRest /\ container.heavy
    /\ LET chunk_dim == get_chunk_dimentions(filename)
       IN  /\ stdout' = IF IsShape(chunk_dim) THEN stdout
                        ELSE stdout \cup {"File format not know. Will use autoblobing."}
           /\ IF IsShape(chunk_dim)
              THEN LET blob_dim == get_blob_dimentions(chunk_dim, container.n_channels_in_file)
                   IN  /\ \E n_blobs \in BlobCounts(container, blob_dim) :
                              plan' = [chunk_dim |-> chunk_dim, blob_dim |-> blob_dim, n_blobs |-> n_blobs]
                       /\ raised' = NoError
                       /\ pc' = "create"
              ELSE \* line 740: True[2]
                   /\ plan' = [chunk_dim |-> chunk_dim, blob_dim |-> <<>>, n_blobs |-> 0]
                   /\ raised' = "TypeError"
                   /\ pc' = "failed"
    /\ ii' = 0
    /\ call' = [op |-> "write_to_hdf5"]
    /\ UNCHANGED <<filename, header, container, data, freqs, ret, h5, fil, src, HAS_BITSHUFFLE>>

\* lines 632-638: the compression filter of both datasets.
bs_compression_Always(has_bitshuffle) == "bitshuffle"
bs_compression(has_bitshuffle) == IF has_bitshuffle THEN "bitshuffle" ELSE "none"

\* h5py's create_dataset refuses (ValueError) a chunk shape that exceeds the
\* dataset's shape in any dimension.
ChunksFit(chunks, shape) == \A k \in 1..Len(shape) : chunks[k] <= shape[k]

\* lines 628-664: the file, its two datasets, their labels and the attributes.
HeavyCreate ==
    /\ pc = "create"
    /\ stdout' = IF HAS_BITSHUFFLE THEN stdout
                 ELSE stdout \cup {"Warning: bitshuffle not found. No compression applied."}
    /\ IF ChunksFit(plan.chunk_dim, file_shape(container))
       THEN /\ h5' = [exists |-> TRUE, CLASS |-> "FILTERBANK",
                      compression |-> bs_compression(HAS_BITSHUFFLE),
                      mask_compression |-> bs_compression(HAS_BITSHUFFLE),
                      chunks |-> plan.chunk_dim,
                      shape |-> file_shape(container), labels |-> DimLabels,
                      mask_shape |-> file_shape(container), mask_labels |-> DimLabels,
                      attrs |-> CopyAttrs(header), data |-> <<>>, writes |-> {}]
            /\ raised' = NoError
            /\ pc' = "stream"
       ELSE /\ h5' = [NoH5 EXCEPT !.exists = TRUE, !.CLASS = "FILTERBANK"]
            /\ raised' = "ValueError"
            /\ pc' = "failed"
    /\ UNCHANGED <<filename, header, container, data, freqs, ret, call, ii, plan, fil, src,
                   HAS_BITSHUFFLE>>

\* line 675: the first channel of blob n_blob, counted along the source.
BlobChanStart(n_blob) == container.c_start + n_blob * Axis(plan.blob_dim, freq_axis)

\* lines 672-688: blob n_blob of the loop over channels.
FreqMajorBlob(n_blob) ==
    LET bob == read_blob(container, plan.blob_dim, n_blob)
        c_start0 == BlobChanStart(n_blob)
        t_start == container.t_start
                       + (c_start0 \div container.n_channels_in_file) * Axis(plan.blob_dim, time_axis)
        t_stop == t_start + Axis(plan.blob_dim, freq_axis)
        c_start == IF header.foff < 0
                   THEN container.n_channels_in_file - (c_start0 % container.n_channels_in_file)
                   ELSE c_start0 % container.n_channels_in_file
        c_stop == IF header.foff < 0
                  THEN c_start - Axis(plan.blob_dim, freq_axis)
                  ELSE c_start + Axis(plan.blob_dim, freq_axis)
    IN  [t_start |-> t_start, t_stop |-> t_stop, c_start |-> c_start, c_stop |-> c_stop, bob |-> bob,
         outcomes |-> H5SetItem(n_blob, Sel(t_start, t_stop, Axis(h5.shape, time_axis)),
                                Sel(c_start, c_stop, Axis(h5.shape, freq_axis)),
                                bob, Axis(bob, time_axis) = 1)]

\* lines 696-700: blob n_blob of the loop over integrations.
TimeMajorBlob(n_blob) ==
    LET bob == read_blob(container, plan.blob_dim, n_blob)
        t_start == container.t_start + n_blob * Axis(plan.blob_dim, time_axis)
        t_stop == Min((n_blob + 1) * Axis(plan.blob_dim, time_axis), container.n_ints_in_file)
        ts == Sel(t_start, t_stop, Axis(h5.shape, time_axis))
    IN  [t_start |-> t_start, t_stop |-> t_stop, c_start |-> 0, c_stop |-> Axis(h5.shape, freq_axis),
         bob |-> bob,
         outcomes |-> H5SetItem(n_blob, ts, Sel(0, Axis(h5.shape, freq_axis), Axis(h5.shape, freq_axis)),
                                bob, Fits(Axis(bob, time_axis), ts.count))]

FreqMajor == Axis(plan.blob_dim, freq_axis) < container.n_channels_in_file

\* lines 666-700: one iteration of the loop that is taken.
HeavyBlob ==
    /\ pc = "stream" /\ ii < plan.n_blobs
    /\ LET b == IF FreqMajor THEN FreqMajorBlob(ii) ELSE TimeMajorBlob(ii)
       IN  /\ call' = [op |-> "blob", ii |-> ii, freq_major |-> FreqMajor,
                       t_start |-> b.t_start, t_stop |-> b.t_stop,
                       c_start |-> b.c_start, c_stop |-> b.c_stop, bob |-> b.bob]
           /\ \E o \in b.outcomes :
                /\ raised' = o.error
                /\ h5' = [h5 EXCEPT !.writes = @ \cup o.write]
                /\ IF o.error = NoError
                   THEN pc' = "stream" /\ ii' = ii + 1
                   ELSE pc' = "failed" /\ ii' = ii
    /\ UNCHANGED <<filename, header, container, data, freqs, ret, plan, fil, src, HAS_BITSHUFFLE, stdout>>

\* lines 669/693 and 702-703: the loop has run out, the file is closed.
HeavyFinish ==
    /\ pc = "stream" /\ ii = plan.n_blobs
    /\ pc' = "done"
    /\ UNCHANGED <<filename, header, container, data, freqs, ret, call, raised, ii, plan, h5, fil, src,
                   HAS_BITSHUFFLE, stdout>>

\* lines 610-611 and 713-734: the light path writes the file in one go.
LightWrite ==
    /\ AtRest /\ ~container.heavy
    /\ h5' = [exists |-> TRUE, CLASS |-> "", compression |-> "lzf", mask_compression |-> "lzf",
              chunks |-> <<>>,
              shape |-> <<Len(data), 1, IF Len(data) = 0 THEN 0 ELSE Len(data[1])>>,
              labels |-> DimLabels,
              mask_shape |-> file_shape(container), mask_labels |-> DimLabels,
              attrs |-> CopyAttrs(header), data |-> data, writes |-> {}]
    /\ call' = [op |-> "write_to_hdf5"]
    /\ raised' = NoError
    /\ pc' = "done"
    /\ UNCHANGED <<filename, header, container, data, freqs, ret, ii, plan, fil, src, HAS_BITSHUFFLE, stdout>>

(***************************************************************************)
(* Opening a file: Filterbank(filename), lines 116-135 and 142-148.        *)
(***************************************************************************)
\* A flat file: its header and its samples in on-disk order, integration after
\* integration and, within one, channel after channel.  An integer sample is
\* its bit pattern, 0 .. 2^nbits - 1; a 32-bit sample is a float.  The samples
\* of a large file are not enumerated (samples = <<>>).
FlatFile(h, samples) == [exists |-> TRUE, header |-> h, samples |-> samples]

\* Values in memory are counted in units of 1/DataUnit, so that the halves,
\* quarters, ... that the medians of blank_dc produce are exact.
DataUnit == 2^MaxCoarse
\* lines 593-598: 4-byte samples are floats, 2-byte and 1-byte samples integers.
IsFloat(nbits) == nbits = 32
ReadSample(nbits, s) == IF IsFloat(nbits) THEN s ELSE s * DataUnit

\* The flat reader reshapes the samples to (time, frequency) and hands them
\* over in ascending frequency: a file with foff < 0 is reversed along its
\* channels when read.
ReadSamples(h, samples) ==
    [t \in 1..(Len(samples) \div h.nchans) |->
        LET row == [c \in 1..h.nchans |-> ReadSample(h.nbits, samples[(t - 1) * h.nchans + c])]
        IN  IF h.foff < 0 THEN Reverse(row) ELSE row]

\* Filterbank(filename) of a small flat file, read whole.
InitFromSmallFile(fname, h, samples) ==
    /\ filename = fname
    /\ header = h
    /\ container = [n_ints_in_file |-> Len(samples) \div h.nchans, n_channels_in_file |-> h.nchans,
                    t_start |-> 0, t_stop |-> Len(samples) \div h.nchans, c_start |-> 0, heavy |-> FALSE,
                    ext |-> "fil"]
    /\ data = ReadSamples(h, samples)
    /\ freqs = setup_freqs(h, None, None).freqs
    /\ ret = RetOf(setup_freqs(h, None, None))
    /\ call = [op |-> "open"]
    /\ raised = NoError
    /\ pc = "idle" /\ ii = 0 /\ plan = NoPlan /\ h5 = NoH5 /\ fil = NoFile
    /\ src = FlatFile(h, samples)
    /\ stdout = {}

\* Filterbank(filename, t_start, t_stop) of a file too large to load: the
\* container is heavy, and neither the samples nor the axis are enumerated.
InitFromLargeFile(fname, h, n_ints, t_start, t_stop) ==
    /\ filename = fname
    /\ header = h
    /\ container = [n_ints_in_file |-> n_ints, n_channels_in_file |-> h.nchans,
                    t_start |-> t_start, t_stop |-> t_stop, c_start |-> 0, heavy |-> TRUE,
                    ext |-> "fil"]
    /\ data = <<>>
    /\ freqs = <<>>
    /\ ret = [i_start |-> 0, i_stop |-> h.nchans * h.foff, chan_start_idx |-> 0, chan_stop_idx |-> h.nchans]
    /\ call = [op |-> "open"]
    /\ raised = NoError
    /\ pc = "idle" /\ ii = 0 /\ plan = NoPlan /\ h5 = NoH5 /\ fil = NoFile
    /\ src = FlatFile(h, <<>>)
    /\ stdout = {}

\* The widths of the large files: multiples of half the widest blob of the
\* file's preset, so that blobs narrower than, equal to and wider than the file
\* all occur.
LargeChans(fname) ==
    LET chunk_dim == get_chunk_dimentions(fname)
    IN  IF IsShape(chunk_dim)
        THEN {(k * Axis(chunk_dim, freq_axis) * MAX_BLOB_MB) \div 2 : k \in 1..MaxHalfBlobs}
        ELSE {1048576}
\* Their lengths: whole blobs, and whole blobs plus one integration.
LargeInts(fname, nchans) ==
    LET chunk_dim == get_chunk_dimentions(fname)
        bt == IF IsShape(chunk_dim) THEN Axis(get_blob_dimentions(chunk_dim, nchans), time_axis) ELSE 1
    IN  {j * bt + r : j \in 0..MaxTimeBlobs, r \in {0, 1}} \ {0}

\* The samples of the small files: n_t * n_c samples of pattern number seed, each
\* one of 0, 40, .., 240 (so that 8-bit samples above 127 occur); 32-bit samples
\* are the same numbers as floats.
Pattern(seed, k) == 40 * (((seed + 1) * k * k + seed * k + k \div 3) % 7)
SmallSamples(nbits, n_t, n_c) ==
    {[k \in 1..(n_t * n_c) |-> IF IsFloat(nbits) THEN Pattern(seed, k) * DataUnit ELSE Pattern(seed, k)] :
        seed \in 0..MaxSeed}

InitLarge(nbits) ==
    \E fname \in Filenames, foff \in {-1, 1} :
      \E nchans \in LargeChans(fname) :
        \E n_ints \in LargeInts(fname, nchans), t_start \in 0..MaxTStart, short \in {0, 1} :
            /\ t_start < n_ints - short
            /\ InitFromLargeFile(fname, [fch1 |-> 2840, foff |-> foff, nchans |-> nchans, nbits |-> nbits],
                                 n_ints, t_start, n_ints - short)

InitH5 ==
    /\ HAS_BITSHUFFLE \in BOOLEAN
    /\ \/ InitLarge(32)
       \/ \E h \in Headers, n_t \in 1..MaxInts :
              \E samples \in SmallSamples(h.nbits, n_t, h.nchans) : InitFromSmallFile({}, h, samples)

NextH5 ==
    \/ HeavyPlan
    \/ HeavyCreate
    \/ HeavyBlob
    \/ HeavyFinish
    \/ LightWrite

SpecH5 == InitH5 /\ [][NextH5]_vars

(***************************************************************************)
(* The geometry alone, for every supported sample width and for widths     *)
(* that the blob widths do not divide.                                     *)
(***************************************************************************)
MaxExp == 28
GeomChans == {2^e : e \in 0..MaxExp} \cup {2^e + 1 : e \in 0..MaxExp} \cup {3 * 2^e : e \in 0..MaxExp}

InitGeom ==
    /\ HAS_BITSHUFFLE = TRUE
    /\ \E fname \in Filenames, nchans \in GeomChans, nbits \in NBitsValues :
           InitFromLargeFile(fname, [fch1 |-> 2840, foff |-> -1, nchans |-> nchans, nbits |-> nbits],
                             1, 0, 1)

NextGeom == HeavyPlan /\ pc = "idle"

SpecGeom == InitGeom /\ [][NextGeom]_vars

(***************************************************************************)
(* blank_dc, lines 212-225.                                                *)
(***************************************************************************)
\* a[i] for a Python index i into n items: a negative index counts from the end.
PyIndex(i, n) == IF i < 0 THEN i + n ELSE i

\* The positions (integration, channel), counted from 1, that the slice
\* data[..., idx+1 : idx+10] selects: the slice stops at the end of the array.
BlankWindow_Eight(d, idx) ==
    {<<t, c + 1>> : t \in 1..Len(d), c \in Min(idx + 1, Len(d[1]))..(Min(idx + 9, Len(d[1])) - 1)}
BlankWindow(d, idx) ==
    {<<t, c + 1>> : t \in 1..Len(d), c \in Min(idx + 1, Len(d[1]))..(Min(idx + 10, Len(d[1])) - 1)}

\* The k-th smallest of the values of d at the positions P.
KthSmallest(d, P, k) ==
    CHOOSE v \in {d[p[1]][p[2]] : p \in P} :
        /\ Cardinality({p \in P : d[p[1]][p[2]] < v}) < k
        /\ k <= Cardinality({p \in P : d[p[1]][p[2]] <= v})

\* np.median of the values at the positions P, all integrations together: the
\* middle value, or the mean of the two middle values.  P is never empty here.
np_median(d, P) ==
    LET n == Cardinality(P)
    IN  IF n % 2 = 1
        THEN KthSmallest(d, P, (n + 1) \div 2)
        ELSE (KthSmallest(d, P, n \div 2) + KthSmallest(d, P, n \div 2 + 1)) \div 2

\* Storing a float into the array: an integer array keeps the integer part.
StoreAs(nbits, v) == IF IsFloat(nbits) THEN v ELSE (v \div DataUnit) * DataUnit

\* lines 222-224: the loop over the coarse channels, from band ii on.
RECURSIVE BlankBands(_, _, _, _, _, _)
BlankBands(d, nbits, band, n_coarse_chan, n_chan_per_coarse, mid_chan) ==
    IF band >= n_coarse_chan
    THEN d
    ELSE LET ss == band * n_chan_per_coarse
             m == StoreAs(nbits, np_median(d, BlankWindow(d, ss + mid_chan)))
             at == PyIndex(ss + mid_chan, Len(d[1])) + 1
         IN  BlankBands([t \in 1..Len(d) |-> [d[t] EXCEPT ![at] = m]],
                        nbits, band + 1, n_coarse_chan, n_chan_per_coarse, mid_chan)

blank_dc(n_coarse_chan) ==
    /\ pc = "idle" /\ call.op = "open" /\ ~container.heavy
    /\ call' = [op |-> "blank_dc", n_coarse_chan |-> n_coarse_chan, data |-> data]
    /\ IF n_coarse_chan = 0
       THEN raised' = "ZeroDivisionError" /\ data' = data
       ELSE LET n_chan == Len(data[1])
                n_chan_per_coarse == n_chan \div n_coarse_chan
                mid_chan == (n_chan_per_coarse \div 2) - 1
            IN  /\ raised' = NoError
                /\ data' = BlankBands(data, header.nbits, 0, n_coarse_chan, n_chan_per_coarse, mid_chan)
    /\ UNCHANGED <<filename, header, container, freqs, ret, pc, ii, plan, h5, fil, src, HAS_BITSHUFFLE, stdout>>

InitDC ==
    /\ HAS_BITSHUFFLE = TRUE
    /\ \E nbits \in NBitsValues, foff \in {-1, 1}, nchans \in 1..MaxDCChans, n_t \in 1..MaxInts :
         \E samples \in SmallSamples(nbits, n_t, nchans) :
            InitFromSmallFile({}, [fch1 |-> 2840, foff |-> foff, nchans |-> nchans, nbits |-> nbits], samples)

NextDC == \E n_coarse_chan \in 0..MaxCoarse : blank_dc(n_coarse_chan)

SpecDC == InitDC /\ [][NextDC]_vars

(***************************************************************************)
(* write_to_fil, lines 574-598, and the way back from the HDF5 file.       *)
(***************************************************************************)
\* self.data as the (time, beam, frequency) array: a file's data has one beam,
\* the data_array of gen_from_header (no container) has the beams it was given.
Beams(d) == IF container.ext = "" THEN d ELSE [t \in 1..Len(d) |-> <<d[t]>>]
\* j[:, ::-1]: the array reversed along its axis 1.
ReverseAxis1(j) == [t \in 1..Len(j) |-> Reverse(j[t])]
\* j.ravel(): the samples in C order, the last axis fastest.
RECURSIVE Concat(_)
Concat(ss) == IF Len(ss) = 0 THEN <<>> ELSE Head(ss) \o Concat(Tail(ss))
Ravel(j) == Concat([t \in 1..Len(j) |-> Concat(j[t])])

\* lines 593-598: np.float32, np.int16 or np.int8 of the values; an integer
\* keeps the integer part, modulo its width, and is written as its bit pattern.
ToFile(n_bytes, v) == IF n_bytes = 4 THEN v ELSE (v \div DataUnit) % 2^(8 * n_bytes)

write_to_fil ==
    /\ AtRest /\ ~container.heavy
    /\ call' = [op |-> "write_to_fil", ext |-> container.ext, foff |-> header.foff]
    /\ IF Len(freqs) = 0
       THEN raised' = "IndexError" /\ UNCHANGED <<header, fil>>
       ELSE IF Len(freqs) = 1
       THEN /\ header' = [header EXCEPT !.fch1 = freqs[1]]
            /\ raised' = "IndexError"
            /\ UNCHANGED fil
       ELSE LET h2 == [header EXCEPT !.fch1 = freqs[1], !.foff = freqs[2] - freqs[1], !.nchans = Len(freqs)]
                n_bytes == h2.nbits \div 8
                j == Ravel(ReverseAxis1(Beams(data)))
            IN  /\ header' = h2
                /\ fil' = FlatFile(h2, [k \in 1..Len(j) |-> ToFile(n_bytes, j[k])])
                /\ raised' = NoError
    /\ UNCHANGED <<filename, container, data, freqs, ret, pc, ii, plan, h5, src, HAS_BITSHUFFLE, stdout>>

\* Filterbank(filename) of the HDF5 file that write_to_hdf5 has written: the
\* header is the attributes of 'data', the data is the dataset, which holds
\* ascending frequency, and the axis is the ascending axis of the header.  src
\* stays the flat file the samples came from.
OpenH5 ==
    /\ pc = "done" /\ h5.exists /\ ~container.heavy
    /\ header' = h5.attrs
    /\ data' = h5.data
    /\ container' = [n_ints_in_file |-> Axis(h5.shape, time_axis),
                     n_channels_in_file |-> Axis(h5.shape, freq_axis),
                     t_start |-> 0, t_stop |-> Axis(h5.shape, time_axis), c_start |-> 0,
                     heavy |-> FALSE, ext |-> "h5"]
    /\ freqs' = setup_freqs(h5.attrs, None, None).freqs
    /\ ret' = RetOf(setup_freqs(h5.attrs, None, None))
    /\ call' = [op |-> "open"]
    /\ raised' = NoError
    /\ pc' = "idle" /\ ii' = 0 /\ plan' = NoPlan
    /\ UNCHANGED <<filename, h5, fil, src, HAS_BITSHUFFLE, stdout>>

InitRT ==
    /\ HAS_BITSHUFFLE = TRUE
    /\ \E h \in Headers, n_t \in 1..MaxInts :
         \E samples \in SmallSamples(h.nbits, n_t, h.nchans) : InitFromSmallFile({}, h, samples)

NextRT ==
    \/ LightWrite
    \/ OpenH5
    \/ write_to_fil

SpecRT == InitRT /\ [][NextRT]_vars

(***************************************************************************)
(* Claims about the blob geometry, checked under SpecGeom.                 *)
(***************************************************************************)
\* The byte size of an array of the given shape at the header's sample width.
ShapeBytes(dim) == dim[1] * dim[2] * dim[3] * (header.nbits \div 8)

Covering(t, c) == {w \in h5.writes : w.t0 <= t /\ t < w.t1 /\ w.c0 <= c /\ c < w.c1}
\* One sample of every rectangle the edges of the writes cut the selection into.
SelectionRows ==
    {t \in {container.t_start} \cup {w.t0 : w \in h5.writes} \cup {w.t1 : w \in h5.writes} :
        container.t_start <= t /\ t < container.t_stop}
SelectionChans ==
    {c \in {0} \cup {w.c0 : w \in h5.writes} \cup {w.c1 : w \in h5.writes} :
        0 <= c /\ c < container.n_channels_in_file}

\* C5: after a heavy conversion has finished, every sample of the selection has
\* been written to the destination by exactly one blob.
C5_EverySampleWrittenOnce ==
    (pc = "done" /\ container.heavy)
        => \A t \in SelectionRows, c \in SelectionChans : Cardinality(Covering(t, c)) = 1

\* C6: in a heavy conversion of a source with foff < 0, a blob narrower than the
\* file is written to the channel range that starts at
\* n_channels_in_file - (c_start mod n_channels_in_file), and that range holds
\* exactly the blob's freq_extent channels inside [0, n_channels_in_file].
C6_DescendingBlobRange ==
    (call.op = "blob" /\ call.freq_major /\ header.foff < 0)
        => LET n == container.n_channels_in_file
               width == Axis(plan.blob_dim, freq_axis)
               cs == Sel(call.c_start, call.c_stop, n)
           IN  /\ call.c_start = n - ((container.c_start + call.ii * width) % n)
               /\ ~cs.reversed
               /\ cs.count = width

\* C7: after write_to_hdf5 completes, on the heavy and on the light path, every
\* key of the header is an attribute of the 'data' dataset with the header's value.
C7_HeaderKeysAreAttributes ==
    pc = "done"
        => /\ h5.exists
           /\ \A key \in DOMAIN header : key \in DOMAIN h5.attrs /\ h5.attrs[key] = header[key]

\* A heavy conversion of several blobs that has completed.
C7_Witness ==
    /\ pc = "done" /\ container.heavy /\ plan.n_blobs >= 2 /\ Cardinality(h5.writes) >= 2
    /\ h5.attrs.nchans = header.nchans /\ h5.attrs.nbits = header.nbits
\* A light conversion that has completed.
C7_WitnessLight ==
    /\ pc = "done" /\ ~container.heavy /\ h5.attrs.foff = header.foff /\ h5.data = data

(***************************************************************************)
(* Claims about blank_dc, checked under SpecDC.                            *)
(***************************************************************************)
\* The channel, counted from 0, that blank_dc writes for a band.
DCChannel(n_chan, n_coarse_chan, band) ==
    LET per == n_chan \div n_coarse_chan
        raw == band * per + per \div 2 - 1
    IN  IF raw < 0 THEN n_chan + raw ELSE raw
\* The median of the values data0 held in channels lo .. hi (counted from 0) in
\* all integrations, as the array stores it.
StoredMedian(data0, lo, hi) ==
    StoreAs(header.nbits, np_median(data0, {<<t, c + 1>> : t \in 1..Len(data0), c \in lo..hi}))

\* C8 as stated: blank_dc(n_coarse_chan) overwrites, for each band, exactly the
\* channel band_start + floor(n_chan_per_coarse/2) - 1 with the median of the 9
\* channels immediately following it, and leaves every other channel unchanged.
C8_BlankDCAsClaimed ==
    (call.op = "blank_dc" /\ call.n_coarse_chan >= 1)
        => LET data0 == call.data
               n_chan == Len(data0[1])
               per == n_chan \div call.n_coarse_chan
               dc == {band * per + per \div 2 - 1 : band \in 0..(call.n_coarse_chan - 1)}
           IN  /\ raised = NoError
               /\ \A c \in dc : 0 <= c /\ c + 9 <= n_chan - 1
               /\ \A t \in 1..Len(data), c \in 0..(n_chan - 1) :
                     data[t][c + 1] = IF c \in dc THEN StoredMedian(data0, c + 1, c + 9) ELSE data0[t][c + 1]

\* C8 amended: blank_dc(n_coarse_chan >= 1) writes exactly the channels
\* band_start + floor(n_chan_per_coarse/2) - 1, an index of -1 meaning the last
\* channel, with one value for all integrations, and leaves every other channel
\* unchanged; when a band has two channels or more that value is the median,
\* over all integrations, of the channels that follow the written one, up to 9
\* of them or to the end of the array; 8 channels in 2 bands write 1 and 5.
C8_BlankDCAsComputed ==
    (call.op = "blank_dc" /\ call.n_coarse_chan >= 1)
        => LET data0 == call.data
               n_chan == Len(data0[1])
               n == call.n_coarse_chan
               per == n_chan \div n
               dc == {DCChannel(n_chan, n, band) : band \in 0..(n - 1)}
           IN  /\ raised = NoError
               /\ dc \subseteq 0..(n_chan - 1)
               /\ \A t \in 1..Len(data), c \in 0..(n_chan - 1) :
                     IF c \in dc THEN data[t][c + 1] = data[1][c + 1] ELSE data[t][c + 1] = data0[t][c + 1]
               /\ per >= 2 =>
                     \A band \in 0..(n - 1) :
                        LET c == band * per + per \div 2 - 1
                        IN  /\ c + 1 <= n_chan - 1
                            /\ data[1][c + 1] = StoredMedian(data0, c + 1, Min(c + 9, n_chan - 1))
               /\ per <= 1 => dc = {n_chan - 1} \cup {band - 1 : band \in 1..(per * (n - 1))}
               /\ (n_chan = 8 /\ n = 2) => dc = {1, 5}

\* The example: 8 channels in 2 bands, two integrations, and both written
\* channels have changed.
C8_Witness ==
    /\ call.op = "blank_dc" /\ call.n_coarse_chan = 2 /\ raised = NoError
    /\ Len(data) = 2 /\ Len(data[1]) = 8
    /\ data[1][2] # call.data[1][2] /\ data[1][6] # call.data[1][6]
    /\ data[1][6] = StoredMedian(call.data, 6, 7)
\* A band wide enough for the whole window of 9 channels.
C8_WitnessNine ==
    /\ call.op = "blank_dc" /\ call.n_coarse_chan = 1 /\ Len(data[1]) = 20
    /\ data[1][10] # call.data[1][10] /\ data[1][10] = StoredMedian(call.data, 10, 18)
\* More bands than channels: the last channel is written.
C8_WitnessWrap ==
    /\ call.op = "blank_dc" /\ call.n_coarse_chan > Len(data[1]) /\ Len(data[1]) >= 2
    /\ data[1][Len(data[1])] # call.data[1][Len(data[1])]

(***************************************************************************)
(* Claims about the round trip, checked under SpecRT.                      *)
(***************************************************************************)
\* The sample a flat file holds for integration t (from 1) at frequency f.
SampleAt(file, t, f) ==
    file.samples[(t - 1) * file.header.nchans + ((f - file.header.fch1) \div file.header.foff) + 1]
FileInts(file) == Len(file.samples) \div file.header.nchans

\* The flat file written holds the samples of the original at every
\* integration and frequency, and its header describes the same axis.
SameSpectrum(a, b) ==
    /\ b.exists
    /\ FileFreqs(a.header) = FileFreqs(b.header)
    /\ a.header.nbits = b.header.nbits
    /\ FileInts(a) = FileInts(b)
    /\ \A t \in 1..FileInts(a), f \in FileFreqs(a.header) : SampleAt(a, t, f) = SampleAt(b, t, f)

\* The object was opened from the HDF5 file write_to_hdf5 made of the flat file,
\* and write_to_fil has been called on it.
RoundTripDone == call.op = "write_to_fil" /\ call.ext = "h5"

\* C3: for every file with an integer sample width, write_to_hdf5 followed by
\* write_to_fil yields the original's samples at every (time, frequency)
\* position and a header with the same frequency axis.
C3_RoundTrip ==
    (RoundTripDone /\ src.header.nbits \in {8, 16})
        => raised = NoError /\ SameSpectrum(src, fil)

(***************************************************************************)
(* Claims about the heavy path's stages, checked under SpecH5.             *)
(***************************************************************************)
BitshuffleWarning == "Warning: bitshuffle not found. No compression applied."
\* A heavy conversion whose geometry was planned and whose datasets were
\* created or refused.
PastCreate == container.heavy /\ pc \in {"stream", "done", "failed"} /\ IsShape(plan.chunk_dim)

\* C11: without bitshuffle a heavy conversion does not fail for want of it: the
\* warning is printed, 'data' and 'mask' are created uncompressed, the only
\* failures are those of the dataset shapes and of the blob assignments, which
\* do not depend on the codec, and a conversion that ends has passed every blob.
C11_ConversionWithoutCodec ==
    (~HAS_BITSHUFFLE /\ PastCreate)
        => /\ BitshuffleWarning \in stdout
           /\ ChunksFit(plan.chunk_dim, file_shape(container))
                  => h5.exists /\ h5.compression = "none" /\ h5.mask_compression = "none"
           /\ pc = "failed" => (~ChunksFit(plan.chunk_dim, file_shape(container)) \/ call.op = "blob")
           /\ pc = "done" => ii = plan.n_blobs

\* Without bitshuffle, a conversion of several blobs has completed and has
\* written every sample of the selection once, uncompressed.
C11_Witness ==
    /\ ~HAS_BITSHUFFLE /\ PastCreate /\ pc = "done" /\ plan.n_blobs >= 2
    /\ h5.compression = "none" /\ BitshuffleWarning \in stdout
    /\ \A t \in SelectionRows, c \in SelectionChans : Cardinality(Covering(t, c)) = 1

(***************************************************************************)
(* The operations on one object, in any order.                             *)
(***************************************************************************)
\* lines 202-210: read_data with no bounds loads the whole file again.
read_data ==
    /\ AtRest /\ ~container.heavy /\ src.exists
    /\ data' = ReadSamples(src.header, src.samples)
    /\ freqs' = setup_freqs(src.header, None, None).freqs
    /\ call' = [op |-> "read_data"]
    /\ raised' = NoError
    /\ UNCHANGED <<filename, header, container, ret, pc, ii, plan, h5, fil, src, HAS_BITSHUFFLE, stdout>>

NextOps ==
    \/ \E n_coarse_chan \in 1..MaxCoarse : blank_dc(n_coarse_chan)
    \/ read_data
    \/ LightWrite
    \/ write_to_fil

SpecOps == InitRT /\ [][NextOps]_vars

\* C12: no operation on an open Filterbank object changes a field of its header.
C12_HeaderImmutable == [][header' = header]_vars

(***************************************************************************)
(* write_to_fil of an object made by gen_from_header, with several beams.  *)
(***************************************************************************)
MaxBeams == 2
\* The (time, beam, frequency) arrays of pattern number seed.
Cubes(nbits, n_t, n_b, n_c) ==
    {[t \in 1..n_t |-> [b \in 1..n_b |-> [c \in 1..n_c |->
            ReadSample(nbits, Pattern(seed, ((t - 1) * n_b + (b - 1)) * n_c + c))]]] : seed \in 0..MaxSeed}

InitFil ==
    /\ HAS_BITSHUFFLE = TRUE
    /\ \E h \in Headers, n_t \in 1..MaxInts, n_b \in 1..MaxBeams :
         \E cube \in Cubes(h.nbits, n_t, n_b, h.nchans) : InitFromHeader(h, cube)

NextFil == write_to_fil

SpecFil == InitFil /\ [][NextFil]_vars

\* a[:, :, ::-1]: the array reversed along its axis 2.
ReversedAxis2(j) == [t \in 1..Len(j) |-> [b \in 1..Len(j[t]) |-> Reverse(j[t][b])]]
\* The samples as bit patterns or floats, in the order given.
Written(nbits, j) == [k \in 1..Len(Ravel(j)) |-> ToFile(nbits \div 8, Ravel(j)[k])]

\* C13: write_to_fil writes the samples reversed along the frequency axis (axis
\* 2) when foff < 0 at the time of the call, and in the array's own order
\* otherwise; the time and beam axes are never reversed.
C13_ReversedIffDescending ==
    (call.op = "write_to_fil" /\ raised = NoError)
        => fil.samples = Written(header.nbits,
                                 IF call.foff < 0 THEN ReversedAxis2(Beams(data)) ELSE Beams(data))

(***************************************************************************)
(* Claims about the datasets of the HDF5 file, checked under SpecH5.       *)
(***************************************************************************)
\* The datasets have been created by the path the object takes.
DatasetsCreated == h5.exists /\ IsShape(h5.shape) /\ pc \in {"stream", "done", "failed"}
\* The label of each axis names what the axis indexes.
LabelsNameAxes(labels) ==
    /\ labels[time_axis + 1] = "time"
    /\ labels[beam_axis + 1] = "feed_id"
    /\ labels[freq_axis + 1] = "frequency"

\* C14: on the heavy and on the light path 'data' and 'mask' have the same
\* (time, beam, frequency) shape, and the label of each axis of both datasets
\* names the quantity the axis indexes: 0 time, 1 beam, 2 frequency.
C14_ShapesAndLabels ==
    DatasetsCreated
        => /\ h5.shape = h5.mask_shape
           /\ h5.shape = <<container.n_ints_in_file, 1, container.n_channels_in_file>>
           /\ LabelsNameAxes(h5.labels)
           /\ LabelsNameAxes(h5.mask_labels)

(***************************************************************************)
(* Claims about the blobs' destinations, checked under SpecH5.             *)
(***************************************************************************)
\* A written region: the integrations [t0, t1) and the channels [c0, c1).
Disjoint(v, w) == v.t1 <= w.t0 \/ w.t1 <= v.t0 \/ v.c1 <= w.c0 \/ w.c1 <= v.c0

Streaming == container.heavy /\ pc \in {"stream", "done", "failed"} /\ IsShape(h5.shape)
\* The geometry was computed before the first blob, and the blobs are taken
\* once each in the order of their indices, with no retry.
PlannedAndInOrder ==
    /\ IsShape(plan.chunk_dim) /\ IsShape(plan.blob_dim)
    /\ plan.blob_dim = get_blob_dimentions(plan.chunk_dim, container.n_channels_in_file)
    /\ plan.n_blobs \in BlobCounts(container, plan.blob_dim)
    /\ 0 <= ii /\ ii <= plan.n_blobs
    /\ \A w \in h5.writes : 0 <= w.ii /\ w.ii < ii
    /\ \A v, w \in h5.writes : v.ii = w.ii => v = w
    /\ pc = "done" => ii = plan.n_blobs
    /\ pc = "failed" => (raised # NoError /\ call.op = "blob" /\ call.ii = ii)
HeaderWritten == \A key \in DOMAIN header : key \in DOMAIN h5.attrs /\ h5.attrs[key] = header[key]

\* C16 as stated: planning precedes streaming, every blob is taken once in
\* order with no retry, and the header metadata is written to the destination
\* only after the last blob has been written.
C16_HeaderWrittenLast ==
    Streaming
        => /\ PlannedAndInOrder
           /\ (pc = "stream" /\ ii < plan.n_blobs) => DOMAIN h5.attrs = {}
           /\ pc = "done" => HeaderWritten

\* C16 amended: planning precedes streaming, every blob is taken once in order
\* with no retry, and the header metadata is on the destination from the moment
\* the datasets exist, before the first blob is written; the end of the loop
\* only closes the file.
C16_HeaderWrittenFirst ==
    Streaming => PlannedAndInOrder /\ HeaderWritten

\* The first of several blobs has been written, the others have not, and the
\* header is already on the destination.
C16_Witness ==
    /\ Streaming /\ pc = "stream" /\ ii = 1 /\ plan.n_blobs >= 2 /\ Cardinality(h5.writes) = 1
    /\ HeaderWritten /\ h5.attrs.nchans = container.n_channels_in_file

(***************************************************************************)
(* Claims about the blob shape and the chunk shape, checked under SpecGeom.*)
(***************************************************************************)
\* C17: for every preset chunk shape and every n_channels_in_file >= 1 the blob
\* shape is (time_extent, 1, freq_extent) with freq_extent the smaller of
\* n_channels_in_file and chunk.freq_extent * MAX_BLOB_MB, and time_extent the
\* truncated quotient of chunk.time_extent * MAX_BLOB_MB * chunk.freq_extent by
\* freq_extent; freq_extent <= n_channels_in_file and time_extent >= 1.
C17_BlobShape ==
    IsShape(plan.blob_dim)
        => LET n == container.n_channels_in_file
               wide == plan.chunk_dim[3] * MAX_BLOB_MB
               samples == plan.chunk_dim[1] * MAX_BLOB_MB * plan.chunk_dim[3]
               time_extent == plan.blob_dim[1]
               freq_extent == plan.blob_dim[3]
           IN  /\ plan.blob_dim[2] = 1
               /\ freq_extent = (IF n < wide THEN n ELSE wide)
               /\ time_extent * freq_extent <= samples
               /\ samples < (time_extent + 1) * freq_extent
               /\ freq_extent <= n
               /\ time_extent >= 1

\* A width that does not divide the budget: the quotient is truncated.
C17_Witness ==
    /\ pc = "create" /\ container.n_channels_in_file = 3
    /\ plan.chunk_dim = <<512, 1, 2048>> /\ plan.blob_dim = <<89478485, 1, 3>>

\* The heavy path has been entered and its planning has ended, well or not.
PlanningOver == container.heavy /\ call.op = "write_to_hdf5" /\ pc \in {"create", "failed"}
\* The preset of the first marker the name holds.
IsPreset(marker, shape) == marker \in filename => plan.chunk_dim = shape

\* C18: for a name that matches no preset the chunk shape is the 'auto'
\* sentinel and the heavy conversion still completes planning, with a blob
\* shape and a blob count, and goes on to create and stream; names with
\* gpuspec.0000., gpuspec.0001. or gpuspec.0002. get the fixed presets.
C18_AutoChunkStillPlans ==
    PlanningOver
        => /\ filename \cap Markers = {}
                => /\ plan.chunk_dim = ChunkAuto
                   /\ raised = NoError /\ pc = "create"
                   /\ IsShape(plan.blob_dim) /\ plan.n_blobs >= 1
           /\ IsPreset("gpuspec.0000.", <<1, 1, 1048576>>)
           /\ ("gpuspec.0000." \notin filename) => IsPreset("gpuspec.0001.", <<512, 1, 2048>>)
           /\ ("gpuspec.0000." \notin filename /\ "gpuspec.0001." \notin filename)
                => IsPreset("gpuspec.0002.", <<10, 1, 65536>>)

====
